---------------------------- MODULE Spec2Model ----------------------------
(***************************************************************************)
(* od2net: the Counts accumulator and its merge, the fixed-point Position  *)
(* and its conversion to and from f64 degrees, the slope factor of the     *)
(* cost model, and the control flow of main (network cache fallback,       *)
(* detailed-route mode against aggregate mode).                            *)
(*                                                                         *)
(* f64 values are modelled bit-exactly (IEEE 754 binary64, round to        *)
(* nearest, ties to even) for normal numbers and zero.  TLC's integers are *)
(* 32 bits wide, so a 53-bit significand is kept as a little-endian        *)
(* sequence of 14-bit limbs.                                               *)
(***************************************************************************)
EXTENDS Integers, Sequences, FiniteSets, TLC

(***************************************************************************)
(* Natural numbers of any width: little-endian sequences of limbs, each in *)
(* 0..LimbBase-1, without high zero limbs (zero is << >>).                 *)
(***************************************************************************)
LimbBits == 14

LimbBase == 16384

RECURSIVE Pow2(_)
Pow2(k) == IF k = 0 THEN 1 ELSE 2 * Pow2(k - 1)

Limb(N, i) == IF i >= 1 /\ i <= Len(N) THEN N[i] ELSE 0

RECURSIVE BigNorm(_)
BigNorm(N) ==
    IF Len(N) = 0 THEN << >>
    ELSE IF N[Len(N)] = 0 THEN BigNorm(SubSeq(N, 1, Len(N) - 1))
    ELSE N

RECURSIVE BigFromInt(_)
BigFromInt(n) ==
    IF n = 0 THEN << >>
    ELSE <<n % LimbBase>> \o BigFromInt(n \div LimbBase)

\* Only for N < 2^31.
RECURSIVE BigToInt(_)
BigToInt(N) ==
    IF Len(N) = 0 THEN 0
    ELSE N[1] + LimbBase * BigToInt(Tail(N))

RECURSIVE BigAddFrom(_, _, _, _)
BigAddFrom(A, B, i, carry) ==
    IF i > Len(A) /\ i > Len(B)
    THEN IF carry = 0 THEN << >> ELSE <<carry>>
    ELSE LET t == Limb(A, i) + Limb(B, i) + carry
         IN  <<t % LimbBase>> \o BigAddFrom(A, B, i + 1, t \div LimbBase)

BigAdd(A, B) == BigAddFrom(A, B, 1, 0)

\* A - B, for A >= B.
RECURSIVE BigSubFrom(_, _, _, _)
BigSubFrom(A, B, i, borrow) ==
    IF i > Len(A) THEN << >>
    ELSE LET t == Limb(A, i) - Limb(B, i) - borrow
         IN  IF t < 0
             THEN <<t + LimbBase>> \o BigSubFrom(A, B, i + 1, 1)
             ELSE <<t>> \o BigSubFrom(A, B, i + 1, 0)

BigSub(A, B) == BigNorm(BigSubFrom(A, B, 1, 0))

\* -1, 0, 1 as A <, =, > B (both without high zero limbs).
RECURSIVE BigCmpFrom(_, _, _)
BigCmpFrom(A, B, i) ==
    IF i = 0 THEN 0
    ELSE IF A[i] < B[i] THEN -1
    ELSE IF A[i] > B[i] THEN 1
    ELSE BigCmpFrom(A, B, i - 1)

BigCmp(A, B) ==
    IF Len(A) < Len(B) THEN -1
    ELSE IF Len(A) > Len(B) THEN 1
    ELSE BigCmpFrom(A, B, Len(A))

\* A * m for a small factor m (0 <= m < LimbBase).
RECURSIVE BigMulSmallFrom(_, _, _, _)
BigMulSmallFrom(A, m, i, carry) ==
    IF i > Len(A)
    THEN IF carry = 0 THEN << >> ELSE <<carry>>
    ELSE LET t == A[i] * m + carry
         IN  <<t % LimbBase>> \o BigMulSmallFrom(A, m, i + 1, t \div LimbBase)

BigMulSmall(A, m) == BigNorm(BigMulSmallFrom(A, m, 1, 0))

Zeros(q) == [i \in 1..q |-> 0]

RECURSIVE BigMulFrom(_, _, _)
BigMulFrom(A, B, j) ==
    IF j > Len(B) THEN << >>
    ELSE BigAdd(Zeros(j - 1) \o BigMulSmallFrom(A, B[j], 1, 0),
                BigMulFrom(A, B, j + 1))

BigMul(A, B) == BigNorm(BigMulFrom(A, B, 1))

\* A * 2^k
BigShl(A, k) ==
    IF Len(A) = 0 THEN << >>
    ELSE Zeros(k \div LimbBits) \o BigMulSmall(A, Pow2(k % LimbBits))

\* floor(A / 2^k)
BigShr(A, k) ==
    LET q == k \div LimbBits
        r == k % LimbBits
        p == Pow2(r)
        h == Pow2(LimbBits - r)
    IN  IF q >= Len(A) THEN << >>
        ELSE BigNorm([i \in 1..(Len(A) - q) |->
                 (Limb(A, i + q) \div p) + (Limb(A, i + q + 1) % p) * h])

RECURSIVE IntBitLen(_)
IntBitLen(n) == IF n = 0 THEN 0 ELSE 1 + IntBitLen(n \div 2)

BigBitLen(N) ==
    IF Len(N) = 0 THEN 0
    ELSE LimbBits * (Len(N) - 1) + IntBitLen(N[Len(N)])

\* Bit i of N, bit 0 the lowest.
BigBit(N, i) == (Limb(N, (i \div LimbBits) + 1) \div Pow2(i % LimbBits)) % 2

\* Whether N mod 2^k is nonzero.
BigLowNonzero(N, k) ==
    \/ \E i \in 1..Len(N) : i <= k \div LimbBits /\ N[i] # 0
    \/ Limb(N, (k \div LimbBits) + 1) % Pow2(k % LimbBits) # 0

(***************************************************************************)
(* f64: [sign, mant, exp] stands for (-1)^sign * mant * 2^exp, where mant  *)
(* is zero (<< >>) or has exactly 53 bits.  Subnormals, infinities and NaN *)
(* are outside the model: every value the model computes is a normal       *)
(* number or zero.                                                         *)
(***************************************************************************)
F64Precision == 53

F64Zero(sign) == [sign |-> sign, mant |-> << >>, exp |-> 0]

F64IsZero(x) == Len(x.mant) = 0

\* (-1)^sign * (N + a fraction in (0,1) if sticky) * 2^e, rounded to nearest,
\* ties to even.  With sticky, N has more than F64Precision + 1 bits.
F64Round(sign, N, e, sticky) ==
    LET L == BigBitLen(N)
    IN  IF L = 0 THEN F64Zero(sign)
        ELSE IF L <= F64Precision
        THEN [sign |-> sign, mant |-> BigShl(N, F64Precision - L),
              exp |-> e - (F64Precision - L)]
        ELSE LET s    == L - F64Precision
                 q    == BigShr(N, s)
                 half == BigBit(N, s - 1) = 1
                 rest == sticky \/ BigLowNonzero(N, s - 1)
                 up   == half /\ (rest \/ BigBit(q, 0) = 1)
                 r    == IF up THEN BigAdd(q, <<1>>) ELSE q
             IN  IF BigBitLen(r) > F64Precision
                 THEN [sign |-> sign, mant |-> BigShr(r, 1), exp |-> e + s + 1]
                 ELSE [sign |-> sign, mant |-> r, exp |-> e + s]

\* `n as f64` for an i32 (exact).
F64FromInt(n) ==
    IF n < 0 THEN F64Round(1, BigFromInt(-n), 0, FALSE)
    ELSE F64Round(0, BigFromInt(n), 0, FALSE)

F64Neg(x) == [x EXCEPT !.sign = 1 - x.sign]

F64Mul(x, y) ==
    LET sign == (x.sign + y.sign) % 2
    IN  IF F64IsZero(x) \/ F64IsZero(y) THEN F64Zero(sign)
        ELSE F64Round(sign, BigMul(x.mant, y.mant), x.exp + y.exp, FALSE)

\* Long division, one quotient bit per step, from a quotient Q and a
\* remainder R < D so far: <<Q', R'>> with Q' * D + R' = (Q * D + R) * 2^k
\* and R' < D.
RECURSIVE BigDivBits(_, _, _, _)
BigDivBits(Q, R, D, k) ==
    IF k = 0 THEN <<Q, R>>
    ELSE LET R2 == BigMulSmall(R, 2)
             Q2 == BigMulSmall(Q, 2)
         IN  IF Len(Q2) >= 0 /\ BigCmp(R2, D) >= 0
             THEN BigDivBits(BigAdd(Q2, <<1>>), BigSub(R2, D), D, k - 1)
             ELSE BigDivBits(Q2, R2, D, k - 1)

F64DivBits == 56

\* x / y for y # 0.
F64Div(x, y) ==
    LET sign == (x.sign + y.sign) % 2
        ge   == BigCmp(x.mant, y.mant) >= 0
        qr   == IF ge
                THEN BigDivBits(<<1>>, BigSub(x.mant, y.mant), y.mant, F64DivBits)
                ELSE BigDivBits(<< >>, x.mant, y.mant, F64DivBits)
    IN  IF F64IsZero(x) THEN F64Zero(sign)
        ELSE F64Round(sign, qr[1], x.exp - y.exp - F64DivBits, Len(qr[2]) # 0)

F64AlignMax == 64

\* x + y.  An operand more than F64AlignMax binades below the other only
\* perturbs the sum below the rounding position: it is moved up to
\* F64AlignMax binades below, which rounds the same.
F64AddOrdered(hi, lo) ==
    LET d  == IF hi.exp - lo.exp > F64AlignMax THEN F64AlignMax
              ELSE hi.exp - lo.exp
        e  == hi.exp - d
        X  == BigShl(hi.mant, d)
        Y  == lo.mant
        c  == BigCmp(X, Y)
    IN  IF hi.sign = lo.sign THEN F64Round(hi.sign, BigAdd(X, Y), e, FALSE)
        ELSE IF c = 0 THEN F64Zero(0)
        ELSE IF c > 0 THEN F64Round(hi.sign, BigSub(X, Y), e, FALSE)
        ELSE F64Round(lo.sign, BigSub(Y, X), e, FALSE)

F64Add(x, y) ==
    IF F64IsZero(x) THEN (IF F64IsZero(y) /\ x.sign # y.sign THEN F64Zero(0) ELSE y)
    ELSE IF F64IsZero(y) THEN x
    ELSE IF x.exp >= y.exp THEN F64AddOrdered(x, y)
    ELSE F64AddOrdered(y, x)

F64Sub(x, y) == F64Add(x, F64Neg(y))

\* Magnitudes of nonzero values: -1, 0, 1.
F64CmpMag(x, y) ==
    IF x.exp < y.exp THEN -1
    ELSE IF x.exp > y.exp THEN 1
    ELSE BigCmp(x.mant, y.mant)

F64Lt(x, y) ==
    IF F64IsZero(x) THEN ~F64IsZero(y) /\ y.sign = 0
    ELSE IF F64IsZero(y) THEN x.sign = 1
    ELSE IF x.sign # y.sign THEN x.sign = 1
    ELSE IF x.sign = 0 THEN F64CmpMag(x, y) < 0
    ELSE F64CmpMag(x, y) > 0

F64Eq(x, y) ==
    IF F64IsZero(x) \/ F64IsZero(y) THEN F64IsZero(x) /\ F64IsZero(y)
    ELSE x = y

F64Le(x, y) == F64Lt(x, y) \/ F64Eq(x, y)

F64Gt(x, y) == F64Lt(y, x)

F64Ge(x, y) == F64Le(y, x)

\* A decimal literal n/d of the source: the f64 nearest to it.  n and d are
\* exact as f64 and the division rounds correctly, so this is that f64.
F64Lit(n, d) == F64Div(F64FromInt(n), F64FromInt(d))

I32Max == 2147483647

I32Min == -I32Max - 1

\* `x as i32`: toward zero, saturating.
F64ToI32(x) ==
    IF F64IsZero(x) THEN 0
    ELSE IF x.exp > 31 - F64Precision
         THEN (IF x.sign = 1 THEN I32Min ELSE I32Max)
    ELSE IF -x.exp >= F64Precision THEN 0
    ELSE LET m == BigToInt(BigShr(x.mant, -x.exp))
         IN  IF x.sign = 1 THEN -m ELSE m

(***************************************************************************)
(* Position: lon and lat in units of 10^-7 degrees, as i32.                *)
(***************************************************************************)
Position(x, y) == [lon |-> x, lat |-> y]

F64_1e7 == F64FromInt(10000000)

F64_1eMinus7 == F64Lit(1, 10000000)

from_degrees(lon_deg, lat_deg) ==
    Position(F64ToI32(F64Mul(lon_deg, F64_1e7)),
             F64ToI32(F64Mul(lat_deg, F64_1e7)))

to_degrees(self) ==
    <<F64Mul(F64_1eMinus7, F64FromInt(self.lon)),
      F64Mul(F64_1eMinus7, F64FromInt(self.lat))>>

(***************************************************************************)
(* Edge: the slope factor of the cost model.                               *)
(***************************************************************************)
\* The f64 literals of calculate_slope_factor.
F64_0 == F64FromInt(0)

F64_1 == F64FromInt(1)

F64_2 == F64FromInt(2)

F64_3 == F64FromInt(3)

F64_4 == F64FromInt(4)

F64_4_5 == F64Lit(9, 2)

F64_5 == F64FromInt(5)

F64_6 == F64FromInt(6)

F64_7 == F64FromInt(7)

F64_8 == F64FromInt(8)

F64_10 == F64FromInt(10)

F64_13 == F64FromInt(13)

F64_15 == F64FromInt(15)

F64_20 == F64FromInt(20)

F64_30 == F64FromInt(30)

F64_60 == F64FromInt(60)

F64_120 == F64FromInt(120)

F64_Minus30 == F64FromInt(-30)

F64_0_7 == F64Lit(7, 10)

F64_1_5 == F64Lit(3, 2)

\* The cascade of thresholds that selects g.
SlopeG(slope, length) ==
    IF F64Ge(F64_13, slope) /\ F64Gt(slope, F64_10) /\ F64Gt(length, F64_15)
    THEN F64_4
    ELSE IF F64Lt(slope, F64_8) /\ F64Le(slope, F64_10) /\ F64Gt(length, F64_30)
    THEN F64_4_5
    ELSE IF F64Lt(slope, F64_5) /\ F64Le(slope, F64_8) /\ F64Gt(length, F64_60)
    THEN F64_5
    ELSE IF F64Lt(slope, F64_3) /\ F64Le(slope, F64_5) /\ F64Gt(length, F64_120)
    THEN F64_6
    ELSE F64_7

\* calculate_slope_factor without the fixed penalty above 20: the quadratic
\* law is extrapolated.
calculate_slope_factor_extrapolated(slope, length) ==
    LET g == SlopeG(slope, length)
    IN  IF F64Lt(slope, F64_Minus30) THEN F64_1_5
        ELSE IF F64Lt(slope, F64_0) /\ F64Ge(slope, F64_Minus30)
        THEN F64Add(
               F64Add(F64_1,
                      F64Div(F64Mul(F64Mul(F64_2, F64_0_7), slope), F64_13)),
               F64Div(F64Div(F64Mul(F64Mul(F64_0_7, slope), slope), F64_13),
                      F64_13))
        ELSE F64Add(F64_1, F64Div(F64Div(F64Mul(slope, slope), g), g))

\* calculate_slope_factor with `slope < 20.0` for `slope <= 20.0`.
calculate_slope_factor_strict(slope, length) ==
    LET g == SlopeG(slope, length)
    IN  IF F64Lt(slope, F64_Minus30) THEN F64_1_5
        ELSE IF F64Lt(slope, F64_0) /\ F64Ge(slope, F64_Minus30)
        THEN F64Add(
               F64Add(F64_1,
                      F64Div(F64Mul(F64Mul(F64_2, F64_0_7), slope), F64_13)),
               F64Div(F64Div(F64Mul(F64Mul(F64_0_7, slope), slope), F64_13),
                      F64_13))
        ELSE IF F64Lt(slope, F64_20) /\ F64Ge(slope, F64_0)
        THEN F64Add(F64_1, F64Div(F64Div(F64Mul(slope, slope), g), g))
        ELSE F64_10

calculate_slope_factor(slope, length) ==
    LET g == SlopeG(slope, length)
    IN  IF F64Lt(slope, F64_Minus30) THEN F64_1_5
        ELSE IF F64Lt(slope, F64_0) /\ F64Ge(slope, F64_Minus30)
        THEN F64Add(
               F64Add(F64_1,
                      F64Div(F64Mul(F64Mul(F64_2, F64_0_7), slope), F64_13)),
               F64Div(F64Div(F64Mul(F64Mul(F64_0_7, slope), slope), F64_13),
                      F64_13))
        ELSE IF F64Le(slope, F64_20) /\ F64Ge(slope, F64_0)
        THEN F64Add(F64_1, F64Div(F64Div(F64Mul(slope, slope), g), g))
        ELSE F64_10

\* Option<T>: None, or Some(x).
None == << >>

Some(x) == <<x>>

IsSome(o) == Len(o) = 1

Unwrap(o) == o[1]

\* apply_elevation without the negation of the slope for the backward factor.
apply_elevation_same_sign(slope_opt, length) ==
    IF slope_opt = None THEN None
    ELSE LET s == Unwrap(slope_opt)
             f == calculate_slope_factor(s, length)
         IN  Some(<<s, <<f, f>>>>)

\* get_slope samples the elevation raster (an external collaborator): its
\* result, None or a slope, is an input here.
apply_elevation(slope_opt, length) ==
    IF slope_opt = None THEN None
    ELSE LET slope == Unwrap(slope_opt)
             forward_slope_factor == calculate_slope_factor(slope, length)
             backward_slope_factor == calculate_slope_factor(F64Neg(slope), length)
         IN  Some(<<slope, <<forward_slope_factor, backward_slope_factor>>>>)

(***************************************************************************)
(* Counts.  The f64 sums of the maps and of total_distance_by_lts are      *)
(* taken exactly: a weight or a distance is an integer number of units.    *)
(* errors is a u64; the model's counts stay far below 2^64.                *)
(***************************************************************************)
NumLts == 5

EmptyMap == [k \in {} |-> 0]

Counts_new ==
    [count_per_edge |-> EmptyMap,
     errors |-> 0,
     count_per_origin |-> EmptyMap,
     count_per_destination |-> EmptyMap,
     total_distance_by_lts |-> [i \in 1..NumLts |-> 0]]

MapGet(m, key) == IF key \in DOMAIN m THEN m[key] ELSE 0

\* *m.entry(key).or_insert(0.0) += count
MapAddEntry(m, key, count) ==
    [k \in DOMAIN m \cup {key} |-> IF k = key THEN MapGet(m, k) + count ELSE m[k]]

\* for (key, count) in other { *m.entry(key).or_insert(0.0) += count; }
MapAddAll(m, other) ==
    [k \in DOMAIN m \cup DOMAIN other |-> MapGet(m, k) + MapGet(other, k)]

\* combine with `insert(key, count)` for `*entry(key).or_insert(0.0) += count`.
MapInsertAll(m, other) ==
    [k \in DOMAIN m \cup DOMAIN other |->
        IF k \in DOMAIN other THEN other[k] ELSE m[k]]

combine_overwrite(self, other) ==
    [count_per_edge |-> MapInsertAll(self.count_per_edge, other.count_per_edge),
     errors |-> self.errors + other.errors,
     count_per_origin |-> MapInsertAll(self.count_per_origin, other.count_per_origin),
     count_per_destination |->
         MapInsertAll(self.count_per_destination, other.count_per_destination),
     total_distance_by_lts |->
         [i \in 1..NumLts |->
             self.total_distance_by_lts[i] + other.total_distance_by_lts[i]]]

\* combine without the loop over other.count_per_destination.
combine_skip_destination(self, other) ==
    [count_per_edge |-> MapAddAll(self.count_per_edge, other.count_per_edge),
     errors |-> self.errors + other.errors,
     count_per_origin |-> MapAddAll(self.count_per_origin, other.count_per_origin),
     count_per_destination |-> self.count_per_destination,
     total_distance_by_lts |->
         [i \in 1..NumLts |->
             self.total_distance_by_lts[i] + other.total_distance_by_lts[i]]]

\* combine with `self.errors += other.errors` executed twice.
combine_errors_twice(self, other) ==
    [count_per_edge |-> MapAddAll(self.count_per_edge, other.count_per_edge),
     errors |-> self.errors + other.errors + other.errors,
     count_per_origin |-> MapAddAll(self.count_per_origin, other.count_per_origin),
     count_per_destination |->
         MapAddAll(self.count_per_destination, other.count_per_destination),
     total_distance_by_lts |->
         [i \in 1..NumLts |->
             self.total_distance_by_lts[i] + other.total_distance_by_lts[i]]]

\* self.combine(other): the value of self afterwards.
combine(self, other) ==
    [count_per_edge |-> MapAddAll(self.count_per_edge, other.count_per_edge),
     errors |-> self.errors + other.errors,
     count_per_origin |-> MapAddAll(self.count_per_origin, other.count_per_origin),
     count_per_destination |->
         MapAddAll(self.count_per_destination, other.count_per_destination),
     total_distance_by_lts |->
         [i \in 1..NumLts |->
             self.total_distance_by_lts[i] + other.total_distance_by_lts[i]]]


(***************************************************************************)
(* The Routing Engine on a small Network: nodes 1-2-3 in a line (the       *)
(* end-to-end scenario) and a separate component 4-5.  Weights are integer *)
(* numbers of units, lengths integer meters.                               *)
(***************************************************************************)
NetworkEdges ==
    [k \in {<<1, 2>>, <<2, 3>>, <<4, 5>>} |->
        IF k = <<1, 2>> THEN [length_meters |-> 30, lts |-> 1]
        ELSE IF k = <<2, 3>> THEN [length_meters |-> 20, lts |-> 3]
        ELSE [length_meters |-> 10, lts |-> 4]]

NetworkIntersections ==
    [n \in 1..5 |->
        IF n <= 3 THEN Position(10 * (n - 1), 0) ELSE Position(10 * (n - 4), 50)]

\* A point with no node within range.
FarPoint == Position(900, 900)

\* Nearest-node resolution: a node, or None when no node is within range.
ResolveNode(point) ==
    IF \E n \in DOMAIN NetworkIntersections : NetworkIntersections[n] = point
    THEN Some(CHOOSE n \in DOMAIN NetworkIntersections :
                  NetworkIntersections[n] = point)
    ELSE None

\* The routing index's query: the edges of the shortest path, or None.
QueryPath(from, to) ==
    IF from <= 3 /\ to <= 3 /\ from < to
    THEN Some([i \in 1..(to - from) |-> <<from + i - 1, from + i>>])
    ELSE IF from <= 3 /\ to <= 3 /\ from > to
    THEN Some([i \in 1..(from - to) |-> <<from - i, from - i + 1>>])
    ELSE IF {from, to} = {4, 5} THEN Some(<<<<4, 5>>>>)
    ELSE None

RECURSIVE CountPath(_, _, _)
CountPath(counts, path, weight) ==
    IF Len(path) = 0 THEN counts
    ELSE LET edge == Head(path)
             lts  == NetworkEdges[edge].lts + 1
             next == [counts EXCEPT
                        !.count_per_edge = MapAddEntry(@, edge, weight),
                        !.total_distance_by_lts[lts] =
                            @ + NetworkEdges[edge].length_meters]
         IN  CountPath(next, Tail(path), weight)

\* Whether a Demand resolves and has a path.
Routable(demand) ==
    LET o == ResolveNode(demand.origin)
        d == ResolveNode(demand.destination)
    IN  /\ IsSome(o) /\ IsSome(d)
        /\ IsSome(QueryPath(Unwrap(o), Unwrap(d)))

\* One Demand routed into counts.
HandleRequest(counts, demand) ==
    IF ~Routable(demand) THEN [counts EXCEPT !.errors = @ + 1]
    ELSE LET path == Unwrap(QueryPath(Unwrap(ResolveNode(demand.origin)),
                                      Unwrap(ResolveNode(demand.destination))))
             used == CountPath(counts, path, demand.weight)
         IN  [used EXCEPT
                !.count_per_origin = MapAddEntry(@, demand.origin, demand.weight),
                !.count_per_destination =
                    MapAddEntry(@, demand.destination, demand.weight)]

\* main's report of a finished run: `num_requests as u64 - counts.errors` is
\* a u64 subtraction, which panics (debug build) or wraps (release build)
\* when it underflows.
RunReports(num_requests, counts) ==
    IF counts.errors <= num_requests
    THEN {[outcome |-> "printed", succeeded |-> num_requests - counts.errors,
           failed |-> counts.errors]}
    ELSE {[outcome |-> "panic", succeeded |-> 0, failed |-> counts.errors],
          \* the wrapped difference, less 2^64
          [outcome |-> "wrapped", succeeded |-> num_requests - counts.errors,
           failed |-> counts.errors]}


(***************************************************************************)
(* Network::load_from_bin on the cache file: File::open fails on a missing *)
(* file, bincode::deserialize_from on a corrupt or mismatching one.        *)
(***************************************************************************)
CacheStates == {"missing", "corrupt", "valid"}

load_from_bin(file) == IF file = "valid" THEN "Ok" ELSE "Err"

(***************************************************************************)
(* State.  Each specification below drives one part of the program and     *)
(* leaves the variables of the other parts at their idle values.           *)
(***************************************************************************)
VARIABLES
    \* Position round trip
    lon, lat, degrees, back, ppc,
    \* Edge::apply_elevation, Edge::calculate_slope_factor, speed_slope_test
    slope, length, elevation, factor, speed, spc,
    \* Counts::combine on three Counts
    ca, cb, cc, r_ab, r_ba, r_bc, r_ab_c, r_a_bc, cpc,
    \* routing a batch: sequentially, and split across workers
    batch, seq, seq_next, todo, assigned, partial, live, routed, report, rpc,
    \* main
    pc, args, cache, network, load_result, written, calls, exit, failed_at

posVars == <<lon, lat, degrees, back, ppc>>

slopeVars == <<slope, length, elevation, factor, speed, spc>>

combineVars == <<ca, cb, cc, r_ab, r_ba, r_bc, r_ab_c, r_a_bc, cpc>>

routeVars ==
    <<batch, seq, seq_next, todo, assigned, partial, live, routed, report, rpc>>

mainVars ==
    <<pc, args, cache, network, load_result, written, calls, exit, failed_at>>

vars == <<posVars, slopeVars, combineVars, routeVars, mainVars>>

PosIdle ==
    /\ lon = 0 /\ lat = 0 /\ degrees = None /\ back = None /\ ppc = "idle"

SlopeIdle ==
    /\ slope = None /\ length = F64Zero(0) /\ elevation = None /\ factor = None
    /\ speed = None /\ spc = "idle"

CombineIdle ==
    /\ ca = Counts_new /\ cb = Counts_new /\ cc = Counts_new
    /\ r_ab = None /\ r_ba = None /\ r_bc = None /\ r_ab_c = None /\ r_a_bc = None
    /\ cpc = "idle"

RouteIdle ==
    /\ batch = << >> /\ seq = Counts_new /\ seq_next = 1 /\ todo = {}
    /\ assigned = << >> /\ partial = << >> /\ live = {} /\ routed = 0
    /\ report = None /\ rpc = "idle"

MainIdle ==
    /\ pc = "idle"
    /\ args = [detailed_routes |-> None, no_output_csv |-> FALSE,
               no_output_pmtiles |-> FALSE, output_metadata |-> FALSE]
    /\ cache = "missing" /\ network = "none" /\ load_result = "none"
    /\ written = {} /\ calls = {} /\ exit = "running" /\ failed_at = ""

(***************************************************************************)
(* Position: a point is converted to degrees and back.                     *)
(***************************************************************************)
MaxCoord == 13

\* Small values around zero, and central London (lon -0.1276, lat 51.5074).
CoordSamples == (-MaxCoord..MaxCoord) \cup {-1276000, 515074000}

PosInit ==
    /\ lon \in CoordSamples
    /\ lat \in CoordSamples
    /\ degrees = None
    /\ back = None
    /\ ppc = "position"
    /\ SlopeIdle /\ CombineIdle /\ RouteIdle /\ MainIdle

ToDegrees ==
    /\ ppc = "position"
    /\ degrees' = to_degrees(Position(lon, lat))
    /\ ppc' = "degrees"
    /\ UNCHANGED <<lon, lat, back, slopeVars, combineVars, routeVars, mainVars>>

FromDegrees ==
    /\ ppc = "degrees"
    /\ back' = Some(from_degrees(degrees[1], degrees[2]))
    /\ ppc' = "back"
    /\ UNCHANGED <<lon, lat, degrees, slopeVars, combineVars, routeVars, mainVars>>

PosNext == ToDegrees \/ FromDegrees

SpecPosition == PosInit /\ [][PosNext]_vars

(***************************************************************************)
(* Edge: slope factors.  The slope of an edge comes from get_slope (None   *)
(* without elevation data, else an f32 widened to f64); the unit test      *)
(* calls calculate_slope_factor on f64 literals.                           *)
(***************************************************************************)
MaxSlope == 31

TinyExp == 60

F64Pow2Neg(k) == [sign |-> 0, mant |-> BigShl(<<1>>, F64Precision - 1),
                  exp |-> -k - (F64Precision - 1)]

F64_20_0001 == F64Lit(200001, 10000)

\* The f32 next above 20: 20 + 2^-19.
F64_20_Next == F64Lit(10485761, 524288)

SlopeSamples ==
    {F64FromInt(n) : n \in -MaxSlope..MaxSlope}
    \cup {F64Lit(25, 2)}
    \cup {F64_20_0001, F64_20_Next}
    \cup {F64Pow2Neg(k) : k \in {TinyExp, 51, 50}}
    \cup {F64Neg(F64Pow2Neg(k)) : k \in {TinyExp, 51, 50}}

LengthSamples == {F64FromInt(n) : n \in {10, 20, 50, 100, 150}}

\* Whether an f64 is the widening of an f32 (24 significant bits).
IsF32(x) == ~BigLowNonzero(x.mant, F64Precision - 24)

speed_flat == F64_15

SlopeInit ==
    /\ slope \in {Some(s) : s \in SlopeSamples} \cup {None}
    /\ length \in LengthSamples
    /\ elevation = None
    /\ factor = None
    /\ speed = None
    /\ spc = "edge"
    /\ PosIdle /\ CombineIdle /\ RouteIdle /\ MainIdle

ApplyElevation ==
    /\ spc = "edge"
    /\ IF slope = None THEN TRUE ELSE IsF32(Unwrap(slope))
    /\ elevation' = apply_elevation(slope, length)
    /\ spc' = "applied"
    /\ UNCHANGED <<slope, length, factor, speed, posVars, combineVars, routeVars, mainVars>>

CalculateSlopeFactor ==
    /\ spc = "edge"
    /\ slope # None
    /\ factor' = Some(calculate_slope_factor(Unwrap(slope), length))
    /\ spc' = "factor"
    /\ UNCHANGED <<slope, length, elevation, speed, posVars, combineVars, routeVars, mainVars>>

SlopeSpeed ==
    /\ spc = "factor"
    /\ speed' = Some(F64Div(speed_flat, Unwrap(factor)))
    /\ spc' = "speed"
    /\ UNCHANGED <<slope, length, elevation, factor, posVars, combineVars, routeVars, mainVars>>

SlopeNext == ApplyElevation \/ CalculateSlopeFactor \/ SlopeSpeed

SpecSlope == SlopeInit /\ [][SlopeNext]_vars

(***************************************************************************)
(* Counts::combine applied to three Counts a, b, c: a+b, b+a, (a+b)+c,     *)
(* b+c, a+(b+c).                                                           *)
(***************************************************************************)
MaxCount == 1

EdgeKeys == {<<1, 2>>, <<2, 3>>}

PointKeys == {Position(0, 0), Position(10, 0)}

PartialMaps(K, V) == UNION {[D -> V] : D \in SUBSET K}

\* Counts that differ from Counts::new in one field, and Counts with every
\* field set.
CountsSamples ==
    {[Counts_new EXCEPT !.count_per_edge = m] :
        m \in PartialMaps(EdgeKeys, 0..MaxCount)}
    \cup {[Counts_new EXCEPT !.errors = e] : e \in 1..MaxCount}
    \cup {[Counts_new EXCEPT !.count_per_origin = m] :
        m \in PartialMaps(PointKeys, 0..MaxCount)}
    \cup {[Counts_new EXCEPT !.count_per_destination = m] :
        m \in PartialMaps(PointKeys, 0..MaxCount)}
    \cup {[Counts_new EXCEPT !.total_distance_by_lts[i] = d] :
        i \in 1..NumLts, d \in 1..MaxCount}
    \cup {[count_per_edge |-> [k \in EdgeKeys |-> w],
           errors |-> w,
           count_per_origin |-> [k \in PointKeys |-> w],
           count_per_destination |-> [k \in PointKeys |-> w],
           total_distance_by_lts |-> [i \in 1..NumLts |-> w]] :
        w \in 1..MaxCount}

CombineInit ==
    /\ ca \in CountsSamples
    /\ cb \in CountsSamples
    /\ cc \in CountsSamples
    /\ r_ab = None /\ r_ba = None /\ r_bc = None /\ r_ab_c = None /\ r_a_bc = None
    /\ cpc = "ab"
    /\ PosIdle /\ SlopeIdle /\ RouteIdle /\ MainIdle

CombineAB ==
    /\ cpc = "ab"
    /\ r_ab' = Some(combine(ca, cb))
    /\ cpc' = "ba"
    /\ UNCHANGED <<ca, cb, cc, r_ba, r_bc, r_ab_c, r_a_bc, posVars, slopeVars, routeVars, mainVars>>

CombineBA ==
    /\ cpc = "ba"
    /\ r_ba' = Some(combine(cb, ca))
    /\ cpc' = "ab_c"
    /\ UNCHANGED <<ca, cb, cc, r_ab, r_bc, r_ab_c, r_a_bc, posVars, slopeVars, routeVars, mainVars>>

CombineAB_C ==
    /\ cpc = "ab_c"
    /\ r_ab_c' = Some(combine(Unwrap(r_ab), cc))
    /\ cpc' = "bc"
    /\ UNCHANGED <<ca, cb, cc, r_ab, r_ba, r_bc, r_a_bc, posVars, slopeVars, routeVars, mainVars>>

CombineBC ==
    /\ cpc = "bc"
    /\ r_bc' = Some(combine(cb, cc))
    /\ cpc' = "a_bc"
    /\ UNCHANGED <<ca, cb, cc, r_ab, r_ba, r_ab_c, r_a_bc, posVars, slopeVars, routeVars, mainVars>>

CombineA_BC ==
    /\ cpc = "a_bc"
    /\ r_a_bc' = Some(combine(ca, Unwrap(r_bc)))
    /\ cpc' = "done"
    /\ UNCHANGED <<ca, cb, cc, r_ab, r_ba, r_bc, r_ab_c, posVars, slopeVars, routeVars, mainVars>>

CombineNext == CombineAB \/ CombineBA \/ CombineAB_C \/ CombineBC \/ CombineA_BC

SpecCombine == CombineInit /\ [][CombineNext]_vars

(***************************************************************************)
(* A batch is routed twice: sequentially into one Counts, and split across *)
(* workers.  Any worker takes any Demand not yet taken; once every Demand  *)
(* is routed the partial results are merged pairwise, in any order, and    *)
(* main reports the totals.                                                *)
(***************************************************************************)
BatchSize == 3

NumWorkers == 2

Demand(o, d, w) == [origin |-> o, destination |-> d, weight |-> w]

DemandSamples ==
    {Demand(NetworkIntersections[1], NetworkIntersections[3], 1),
     Demand(NetworkIntersections[3], NetworkIntersections[2], 2),
     Demand(NetworkIntersections[1], FarPoint, 1),
     Demand(NetworkIntersections[2], NetworkIntersections[4], 1)}

RouteInit ==
    /\ batch \in [1..BatchSize -> DemandSamples]
    /\ seq = Counts_new
    /\ seq_next = 1
    /\ todo = 1..BatchSize
    /\ assigned = [w \in 1..NumWorkers |-> {}]
    /\ partial = [w \in 1..NumWorkers |-> Counts_new]
    /\ live = 1..NumWorkers
    /\ routed = 0
    /\ report = None
    /\ rpc = "sequential"
    /\ PosIdle /\ SlopeIdle /\ CombineIdle /\ MainIdle

SeqRoute ==
    /\ rpc = "sequential"
    /\ seq' = HandleRequest(seq, batch[seq_next])
    /\ seq_next' = seq_next + 1
    /\ rpc' = IF seq_next = Len(batch) THEN "routing" ELSE "sequential"
    /\ UNCHANGED <<batch, todo, assigned, partial, live, routed, report,
                   posVars, slopeVars, combineVars, mainVars>>

WorkerRoute(w, i) ==
    /\ rpc = "routing"
    /\ i \in todo
    /\ partial' = [partial EXCEPT ![w] = HandleRequest(@, batch[i])]
    /\ routed' = IF Routable(batch[i]) THEN routed + 1 ELSE routed
    /\ todo' = todo \ {i}
    /\ assigned' = [assigned EXCEPT ![w] = @ \cup {i}]
    /\ rpc' = IF todo = {i} THEN "merging" ELSE "routing"
    /\ UNCHANGED <<batch, seq, seq_next, live, report,
                   posVars, slopeVars, combineVars, mainVars>>

MergePair(i, j) ==
    /\ rpc = "merging"
    /\ i \in live /\ j \in live /\ i # j
    /\ partial' = [partial EXCEPT ![i] = combine(partial[i], partial[j]),
                                  ![j] = Counts_new]
    /\ live' = live \ {j}
    /\ UNCHANGED <<batch, seq, seq_next, todo, assigned, routed, report, rpc,
                   posVars, slopeVars, combineVars, mainVars>>

Merged == partial[CHOOSE w \in live : TRUE]

Report ==
    /\ rpc = "merging"
    /\ Cardinality(live) = 1
    /\ \E r \in RunReports(Len(batch), Merged) : report' = Some(r)
    /\ rpc' = "reported"
    /\ UNCHANGED <<batch, seq, seq_next, todo, assigned, partial, live, routed,
                   posVars, slopeVars, combineVars, mainVars>>

RouteNext ==
    \/ SeqRoute
    \/ \E w \in 1..NumWorkers, i \in 1..BatchSize : WorkerRoute(w, i)
    \/ \E i \in 1..NumWorkers, j \in 1..NumWorkers : MergePair(i, j)
    \/ Report

SpecRoute == RouteInit /\ [][RouteNext]_vars

(***************************************************************************)
(* main.  Every fallible call (`?`) either succeeds or ends the run with   *)
(* an error; written holds the output files created so far, calls the      *)
(* collaborators called so far.                                            *)
(***************************************************************************)
ArgsSamples ==
    [detailed_routes : {None, Some(1)}, no_output_csv : BOOLEAN,
     no_output_pmtiles : BOOLEAN, output_metadata : BOOLEAN]

LoadStage == {"load", "read_osm", "make_from_osm", "create_bin", "serialize"}

AggregateOutputs ==
    {"counts.csv", "output.geojson", "rnet.pmtiles", "metadata.json"}

MainInit ==
    /\ pc = "config"
    /\ args \in ArgsSamples
    /\ cache \in CacheStates
    /\ network = "none"
    /\ load_result = "none"
    /\ written = {}
    /\ calls = {}
    /\ exit = "running"
    /\ failed_at = ""
    /\ PosIdle /\ SlopeIdle /\ CombineIdle /\ RouteIdle

\* main returns (or panics) at a stage.
Ends(result, stage) ==
    /\ exit' = result
    /\ failed_at' = stage
    /\ pc' = "exited"

Continues(next) ==
    /\ pc' = next
    /\ UNCHANGED <<exit, failed_at>>

ReadConfig ==
    /\ pc = "config"
    /\ \/ Continues("dirs")
       \/ Ends("Err", "config")
       \/ Ends("panic", "config")
    /\ UNCHANGED <<args, cache, network, load_result, written, calls,
                   posVars, slopeVars, combineVars, routeVars>>

CreateDirs ==
    /\ pc = "dirs"
    /\ \/ Continues("load")
       \/ Ends("Err", "dirs")
       \/ Ends("panic", "dirs")
    /\ UNCHANGED <<args, cache, network, load_result, written, calls,
                   posVars, slopeVars, combineVars, routeVars>>

\* main with `Network::load_from_bin(&bin_path)?`: a failed load ends the run.
LoadNetworkFatal ==
    /\ pc = "load"
    /\ load_result' = load_from_bin(cache)
    /\ IF load_result' = "Ok"
       THEN network' = "loaded" /\ Continues("requests")
       ELSE network' = network /\ Ends("Err", "load")
    /\ UNCHANGED <<args, cache, written, calls,
                   posVars, slopeVars, combineVars, routeVars>>

LoadNetwork ==
    /\ pc = "load"
    /\ load_result' = load_from_bin(cache)
    /\ IF load_result' = "Ok"
       THEN network' = "loaded" /\ Continues("requests")
       ELSE network' = network /\ Continues("read_osm")
    /\ UNCHANGED <<args, cache, written, calls,
                   posVars, slopeVars, combineVars, routeVars>>

ReadOsm ==
    /\ pc = "read_osm"
    /\ \/ Continues("make_from_osm")
       \/ Ends("Err", "read_osm")
    /\ UNCHANGED <<args, cache, network, load_result, written, calls,
                   posVars, slopeVars, combineVars, routeVars>>

MakeFromOsm ==
    /\ pc = "make_from_osm"
    /\ calls' = calls \cup {"make_from_osm"}
    /\ \/ Continues("create_bin")
       \/ Ends("Err", "make_from_osm")
    /\ UNCHANGED <<args, cache, network, load_result, written,
                   posVars, slopeVars, combineVars, routeVars>>

CreateBin ==
    /\ pc = "create_bin"
    /\ \/ /\ written' = written \cup {"network.bin"}
          /\ cache' = "corrupt"
          /\ Continues("serialize")
       \/ /\ UNCHANGED <<written, cache>>
          /\ Ends("Err", "create_bin")
    /\ UNCHANGED <<args, network, load_result, calls,
                   posVars, slopeVars, combineVars, routeVars>>

\* The BufWriter is dropped inside serialize_into: an error of its last
\* flush is ignored, and the file may be left incomplete.
SerializeNetwork ==
    /\ pc = "serialize"
    /\ \/ /\ cache' \in {"valid", "corrupt"}
          /\ network' = "rebuilt"
          /\ Continues("requests")
       \/ /\ UNCHANGED <<cache, network>>
          /\ Ends("Err", "serialize")
    /\ UNCHANGED <<args, load_result, written, calls,
                   posVars, slopeVars, combineVars, routeVars>>

GenerateRequests ==
    /\ pc = "requests"
    /\ \/ Continues("mode")
       \/ Ends("Err", "requests")
    /\ UNCHANGED <<args, cache, network, load_result, written, calls,
                   posVars, slopeVars, combineVars, routeVars>>

DetailedRoutes ==
    /\ pc = "mode"
    /\ args.detailed_routes # None
    /\ calls' = calls \cup {"detailed_route_output::run"}
    /\ \/ Ends("Ok", "")
       \/ Ends("Err", "detailed_routes")
    /\ UNCHANGED <<args, cache, network, load_result, written,
                   posVars, slopeVars, combineVars, routeVars>>

\* main without the test of args.detailed_routes before the aggregate routing.
RouterRunAlways ==
    /\ pc = "mode"
    /\ calls' = calls \cup {"router::run"}
    /\ \/ Continues("csv")
       \/ Ends("Err", "routing")
    /\ UNCHANGED <<args, cache, network, load_result, written,
                   posVars, slopeVars, combineVars, routeVars>>

RouterRun ==
    /\ pc = "mode"
    /\ args.detailed_routes = None
    /\ calls' = calls \cup {"router::run"}
    /\ \/ Continues("csv")
       \/ Ends("Err", "routing")
    /\ UNCHANGED <<args, cache, network, load_result, written,
                   posVars, slopeVars, combineVars, routeVars>>

\* A failed write may or may not have created its file.
WriteCsv ==
    /\ pc = "csv"
    /\ IF args.no_output_csv
       THEN UNCHANGED written /\ Continues("geojson")
       ELSE \/ written' = written \cup {"counts.csv"} /\ Continues("geojson")
            \/ /\ written' \in {written, written \cup {"counts.csv"}}
               /\ Ends("Err", "csv")
    /\ UNCHANGED <<args, cache, network, load_result, calls,
                   posVars, slopeVars, combineVars, routeVars>>

WriteGeojson ==
    /\ pc = "geojson"
    /\ \/ written' = written \cup {"output.geojson"} /\ Continues("pmtiles")
       \/ /\ written' \in {written, written \cup {"output.geojson"}}
          /\ Ends("Err", "geojson")
    /\ UNCHANGED <<args, cache, network, load_result, calls,
                   posVars, slopeVars, combineVars, routeVars>>

WritePmtiles ==
    /\ pc = "pmtiles"
    /\ IF args.no_output_pmtiles
       THEN UNCHANGED written /\ Continues("metadata")
       ELSE \/ written' = written \cup {"rnet.pmtiles"} /\ Continues("metadata")
            \/ /\ written' \in {written, written \cup {"rnet.pmtiles"}}
               /\ Ends("Err", "pmtiles")
    /\ UNCHANGED <<args, cache, network, load_result, calls,
                   posVars, slopeVars, combineVars, routeVars>>

WriteMetadata ==
    /\ pc = "metadata"
    /\ IF ~args.output_metadata
       THEN UNCHANGED written /\ Ends("Ok", "")
       ELSE \/ written' = written \cup {"metadata.json"} /\ Ends("Ok", "")
            \/ /\ written' \in {written, written \cup {"metadata.json"}}
               /\ Ends("Err", "metadata")
    /\ UNCHANGED <<args, cache, network, load_result, calls,
                   posVars, slopeVars, combineVars, routeVars>>

MainNext ==
    \/ ReadConfig
    \/ CreateDirs
    \/ LoadNetwork
    \/ ReadOsm
    \/ MakeFromOsm
    \/ CreateBin
    \/ SerializeNetwork
    \/ GenerateRequests
    \/ DetailedRoutes
    \/ RouterRun
    \/ WriteCsv
    \/ WriteGeojson
    \/ WritePmtiles
    \/ WriteMetadata

SpecMain == MainInit /\ [][MainNext]_vars

(***************************************************************************)
(* Properties.                                                             *)
(***************************************************************************)

\* C1: Counts.combine is commutative and associative on every field:
\* combine(a, b) = combine(b, a), and combine(combine(a, b), c) =
\* combine(a, combine(b, c)).
CombineCommutativeAssociative ==
    /\ (r_ab # None /\ r_ba # None) => r_ab = r_ba
    /\ cpc = "done" => r_ab_c = r_a_bc

\* C1 witness: three Counts that all count the same edge, two of them with a
\* nonzero count, have been combined in both association orders.
CombineOverlapCombined ==
    /\ cpc = "done"
    /\ \A x \in {ca, cb, cc} : <<1, 2>> \in DOMAIN x.count_per_edge
    /\ ca.count_per_edge[<<1, 2>>] > 0
    /\ cb.count_per_edge[<<1, 2>>] = 0
    /\ cc.count_per_edge[<<1, 2>>] > 0
    /\ Unwrap(r_a_bc).count_per_edge[<<1, 2>>] =
           ca.count_per_edge[<<1, 2>>] + cc.count_per_edge[<<1, 2>>]

CacheFailureRecovered ==
    /\ exit # "running" => failed_at # "load"
    /\ (load_result = "Err" /\ exit # "running" /\ failed_at \in LoadStage) =>
           failed_at \in {"read_osm", "make_from_osm", "create_bin", "serialize"}
    /\ (/\ load_result = "Err"
        /\ pc \notin {"read_osm", "make_from_osm", "create_bin", "serialize"}
        /\ ~(pc = "exited" /\ failed_at \in LoadStage)) =>
           /\ network = "rebuilt"
           /\ "make_from_osm" \in calls
           /\ "network.bin" \in written

\* C3 witness: the load failed and the run went on to its end with the
\* rebuilt Network.
CacheFailureRunCompleted ==
    /\ load_result = "Err"
    /\ network = "rebuilt"
    /\ "router::run" \in calls
    /\ exit = "Ok"

\* C4: from_degrees applied to the output of to_degrees returns the same
\* lon and lat integers.
RoundTripExact ==
    ppc = "back" => back = Some(Position(lon, lat))

F64Abs(x) == [x EXCEPT !.sign = 0]

SpeedTolerance == F64Lit(1, 100000)

\* C5: a flat speed of 15 divided by the slope factor is 12.67241 for slope
\* 3 and length 50, and 37.17009 for slope -8 and length 100, each within a
\* two-sided tolerance.
SpeedSlopeReference ==
    (spc = "speed" /\ slope # None) =>
        /\ (slope = Some(F64_3) /\ length = F64FromInt(50)) =>
               F64Lt(F64Abs(F64Sub(Unwrap(speed), F64Lit(1267241, 100000))),
                     SpeedTolerance)
        /\ (slope = Some(F64FromInt(-8)) /\ length = F64FromInt(100)) =>
               F64Lt(F64Abs(F64Sub(Unwrap(speed), F64Lit(3717009, 100000))),
                     SpeedTolerance)

\* C6 as stated: for every slope and every length the slope factor is no
\* greater than 10.0.
SlopeFactorAtMostTen ==
    spc = "factor" => F64Le(Unwrap(factor), F64_10)

F64_12 == F64FromInt(12)

\* C6 as amended: the slope factor is 10.0 for every slope above 20, and no
\* greater than 10.0 for every slope and length except a slope above 12 and
\* up to 13 on an edge longer than 15, where it is at most 11.5625.
SlopeFactorBound ==
    spc = "factor" =>
        LET s == Unwrap(slope)
            f == Unwrap(factor)
            steep == F64Gt(s, F64_12) /\ F64Le(s, F64_13) /\ F64Gt(length, F64_15)
        IN  /\ F64Gt(s, F64_20) => f = F64_10
            /\ ~steep => F64Le(f, F64_10)
            /\ steep => F64Le(f, F64Lit(185, 16))

\* C6 witness: the factor of a slope above 20 has been computed.
SlopeAbove20Computed ==
    /\ spc = "factor"
    /\ slope = Some(F64FromInt(25))
    /\ factor = Some(F64_10)

\* C7: at slope exactly 20 the slope factor is 1 + 400/g^2 for the g of the
\* cascade (7, for every length), and at a slope just above 20 it is the
\* fixed 10.0: the factor is discontinuous at 20.
SlopeBoundaryAt20 ==
    spc = "factor" =>
        /\ slope = Some(F64_20) =>
               /\ SlopeG(F64_20, length) = F64_7
               /\ factor = Some(F64Lit(449, 49))
               /\ factor # Some(F64_10)
        /\ slope \in {Some(F64_20_0001), Some(F64_20_Next)} =>
               factor = Some(F64_10)

\* C7 witness: the factor at slope exactly 20 has been computed.
SlopeAt20Computed ==
    /\ spc = "factor"
    /\ slope = Some(F64_20)
    /\ length = F64FromInt(150)
    /\ F64Lt(Unwrap(factor), F64_10)

\* C8 as stated: the forward and the backward factor of apply_elevation
\* differ for every nonzero slope, and are equal at slope 0.
ForwardBackwardDiffer ==
    (spc = "applied" /\ elevation # None) =>
        LET s   == Unwrap(elevation)[1]
            fwd == Unwrap(elevation)[2][1]
            bwd == Unwrap(elevation)[2][2]
        IN  F64IsZero(s) <=> F64Eq(fwd, bwd)

\* The least magnitude of slope the amended C8 covers: 2^-50.
SlopeResolution == F64Pow2Neg(50)

\* C8 as amended: the forward and the backward factor of apply_elevation
\* differ for every slope of magnitude 2^-50 or more, and are equal at
\* slope 0.
ForwardBackwardDifferAboveRounding ==
    (spc = "applied" /\ elevation # None) =>
        LET s   == Unwrap(elevation)[1]
            fwd == Unwrap(elevation)[2][1]
            bwd == Unwrap(elevation)[2][2]
        IN  /\ F64Ge(F64Abs(s), SlopeResolution) => ~F64Eq(fwd, bwd)
            /\ F64IsZero(s) => F64Eq(fwd, bwd)

\* C8 witness: apply_elevation has computed different factors for the
\* slope 2^-50.
TinySlopeApplied ==
    /\ spc = "applied"
    /\ slope = Some(SlopeResolution)
    /\ elevation # None
    /\ Unwrap(elevation)[2][1] = F64_1
    /\ F64Lt(Unwrap(elevation)[2][2], F64_1)

\* C9: with detailed_routes set, main returns the result of
\* detailed_route_output::run, never calls router::run and writes none of
\* counts.csv, output.geojson, rnet.pmtiles, metadata.json; with it not set,
\* detailed_route_output::run is never called.
ModesExclusive ==
    /\ args.detailed_routes # None =>
           /\ "router::run" \notin calls
           /\ written \cap AggregateOutputs = {}
    /\ args.detailed_routes = None => "detailed_route_output::run" \notin calls
    /\ "detailed_route_output::run" \in calls =>
           /\ pc = "exited"
           /\ failed_at \in {"", "detailed_routes"}
           /\ exit = (IF failed_at = "" THEN "Ok" ELSE "Err")

\* C9 witness: a run with detailed_routes set has returned from
\* detailed_route_output::run.
DetailedRunReturned ==
    /\ args.detailed_routes # None
    /\ "detailed_route_output::run" \in calls
    /\ exit = "Ok"

RECURSIVE SumErrors(_)
SumErrors(W) ==
    IF W = {} THEN 0
    ELSE LET w == CHOOSE v \in W : TRUE
         IN  partial[w].errors + SumErrors(W \ {w})

\* C10: each Demand taken contributes one failure or one success, so the
\* failure counter never exceeds the number of Demands of the batch, before
\* and after the merge; the subtraction of main's report does not underflow
\* and succeeded + failed is the number of Demands.
ErrorsWithinBatch ==
    /\ rpc # "sequential" =>
           SumErrors(1..NumWorkers) + routed = Len(batch) - Cardinality(todo)
    /\ \A w \in 1..NumWorkers : partial[w].errors <= Len(batch)
    /\ rpc = "reported" =>
           LET r == Unwrap(report)
           IN  /\ r.outcome = "printed"
               /\ r.failed = Merged.errors
               /\ r.succeeded = routed
               /\ r.succeeded + r.failed = Len(batch)

\* C10 witness: a batch with failed and routed Demands, split across all the
\* workers with failures on more than one of them, has been reported.
MixedBatchReported ==
    /\ rpc = "reported"
    /\ \A w \in 1..NumWorkers : \E i \in assigned[w] : ~Routable(batch[i])
    /\ Unwrap(report).succeeded > 0
    /\ Unwrap(report).failed > 1

====
